---- MODULE Spec2Model ----
(***************************************************************************)
(* SudokuSolver (src/src/main.rs): the Slice / Board data model, the       *)
(* constraint verification Sudoku::verify_board and the move generator     *)
(* Sudoku::next_possible_moves.                                            *)
(*                                                                         *)
(* Boards are functions 0..80 -> Value and slices functions 0..8 -> Value, *)
(* indexed as the arrays of the source.  A Vec is a sequence.              *)
(***************************************************************************)
EXTENDS Integers, Sequences, FiniteSets, TLC

VARIABLES board, slice, call, ret, steps, depth, root, nsets

vars == <<board, slice, call, ret, steps, depth, root, nsets>>

(***************************************************************************)
(* Bounds of the exploration.                                              *)
(***************************************************************************)
\* number of boards a driver loads after the input (edits and moves)
MaxSteps == 2
\* number of Slice::set calls on one slice
MaxSets == 2

(***************************************************************************)
(* Program constants.                                                      *)
(***************************************************************************)
COUNT_VALUES == 81
COUNT_BLOCKS == 9
COUNT_ROWS == 9
COUNT_COLUMNS == 9

(***************************************************************************)
(* Slice                                                                   *)
(***************************************************************************)
\* impl Default for Slice: Self([Cell(0); 9])
default_slice == [i \in 0..8 |-> 0]

\* Slice::set
set(s, index, cell) == [s EXCEPT ![index] = cell]

\* Slice::has: linear scan with early return
has(s, value) == \E i \in 0..8 : s[i] = value

\* the count array of has_unique_sudoku_values: only admissible values count
count(s) ==
    [d \in 0..8 |-> Cardinality({i \in 0..8 : 1 <= s[i] /\ s[i] <= 9 /\ s[i] - 1 = d})]

has_unique_ignoring_nine(s) == \A d \in 0..7 : ~(count(s)[d] > 1)

\* Slice::has_unique_sudoku_values
has_unique_sudoku_values(s) == \A d \in 0..8 : ~(count(s)[d] > 1)

unused_from_le(s, candidate) ==
    LET F[c \in 1..10] ==
            IF c > 8 THEN <<>>
            ELSE (IF \E i \in 0..8 : s[i] = c THEN <<>> ELSE <<c>>) \o F[c + 1]
    IN F[candidate]

\* the loop of unused_sudoku_values from `candidate` up to 9
unused_from(s, candidate) ==
    LET F[c \in 1..10] ==
            IF c > 9 THEN <<>>
            ELSE (IF \E i \in 0..8 : s[i] = c THEN <<>> ELSE <<c>>) \o F[c + 1]
    IN F[candidate]

\* Slice::unused_sudoku_values
unused_sudoku_values(s) == unused_from(s, 1)

(***************************************************************************)
(* Board                                                                   *)
(***************************************************************************)
\* impl Default for Board: cells: [Cell(0); 9 * 9]
default_board == [i \in 0..(COUNT_VALUES - 1) |-> 0]

\* Board::from_flattened_values: values is a sequence of 81 digits
from_flattened_values(values) == [i \in 0..(COUNT_VALUES - 1) |-> values[i + 1]]

unassigned_all(b) == [k \in 1..COUNT_VALUES |-> k - 1]

\* Board::unassigned: ascending cell ids holding 0
unassigned(b) ==
    LET F[cell_id \in 0..COUNT_VALUES] ==
            IF cell_id >= COUNT_VALUES THEN <<>>
            ELSE (IF b[cell_id] = 0 THEN <<cell_id>> ELSE <<>>) \o F[cell_id + 1]
    IN F[0]

base_cell_id_per_block_rows == <<0, 3, 6, 9, 12, 15, 18, 21, 24>>

\* Board::block: the table of base cell ids (block_id 0..8 -> index 1..9)
base_cell_id_per_block == <<0, 3, 6, 27, 30, 33, 54, 57, 60>>

\* Board::block: the cell id read for slice position i (row_offset, col_offset loops)
block_cell_id(block_id, i) ==
    base_cell_id_per_block[block_id + 1] + 9 * (i \div 3) + (i % 3)

\* Board::block
block(b, block_id) == [i \in 0..8 |-> b[block_cell_id(block_id, i)]]

\* Board::row
row(b, row_id) == [column_id \in 0..8 |-> b[row_id * 9 + column_id]]

\* Board::column
column(b, column_id) == [row_id \in 0..8 |-> b[row_id * 9 + column_id]]

replace_cell_next(b, cell_id, value) ==
    [b EXCEPT ![(cell_id + 1) % COUNT_VALUES] = value]

\* Board::replace_cell: clone, then overwrite one cell of the clone
replace_cell(b, cell_id, value) == [b EXCEPT ![cell_id] = value]

(***************************************************************************)
(* Sudoku                                                                  *)
(***************************************************************************)
Ok == [ok |-> TRUE]

\* Error::ConstraintError { region, slice }
ConstraintError(region, s) == [ok |-> FALSE, region |-> region, slice |-> s]

vertical_pos == <<"top", "middle", "bottom">>

horizontal_pos == <<"left", "center", "right">>

\* verify_board, first loop: columns from column_id upwards
verify_columns(b, from) ==
    LET F[column_id \in 0..COUNT_COLUMNS] ==
            IF column_id >= COUNT_COLUMNS THEN Ok
            ELSE IF ~has_unique_sudoku_values(column(b, column_id))
                 THEN ConstraintError("column " \o ToString(column_id + 1),
                                      column(b, column_id))
                 ELSE F[column_id + 1]
    IN F[from]

\* verify_board, second loop: rows
verify_rows(b, from) ==
    LET F[row_id \in 0..COUNT_ROWS] ==
            IF row_id >= COUNT_ROWS THEN Ok
            ELSE IF ~has_unique_sudoku_values(row(b, row_id))
                 THEN ConstraintError("row " \o ToString(row_id + 1), row(b, row_id))
                 ELSE F[row_id + 1]
    IN F[from]

\* verify_board, third loop: blocks
verify_blocks(b, from) ==
    LET F[block_id \in 0..COUNT_BLOCKS] ==
            IF block_id >= COUNT_BLOCKS THEN Ok
            ELSE IF ~has_unique_sudoku_values(block(b, block_id))
                 THEN ConstraintError(
                          "block " \o vertical_pos[(block_id \div 3) + 1] \o "-"
                                   \o horizontal_pos[(block_id % 3) + 1],
                          block(b, block_id))
                 ELSE F[block_id + 1]
    IN F[from]

verify_board_no_blocks(b) ==
    IF ~verify_columns(b, 0).ok THEN verify_columns(b, 0)
    ELSE verify_rows(b, 0)

verify_board_rows_first(b) ==
    IF ~verify_rows(b, 0).ok THEN verify_rows(b, 0)
    ELSE IF ~verify_columns(b, 0).ok THEN verify_columns(b, 0)
    ELSE verify_blocks(b, 0)

\* Sudoku::verify_board: columns, then rows, then blocks; first failure returns
verify_board(b) ==
    IF ~verify_columns(b, 0).ok THEN verify_columns(b, 0)
    ELSE IF ~verify_rows(b, 0).ok THEN verify_rows(b, 0)
    ELSE verify_blocks(b, 0)

\* Sudoku::finished
finished(b) == unassigned(b) = <<>>

candidate_accepted_no_row(b, cell_id, candidate_value) ==
    /\ ~has(column(b, cell_id % 9), candidate_value)
    /\ ~has(block(b, cell_id \div 9), candidate_value)

\* next_possible_moves, loop body: the three `continue` tests
candidate_accepted(b, cell_id, candidate_value) ==
    LET column_id == cell_id % 9
        row_id == cell_id \div 9
    IN /\ ~has(column(b, column_id), candidate_value)
       /\ ~has(row(b, row_id), candidate_value)
       /\ ~has(block(b, row_id), candidate_value)

\* next_possible_moves, inner loop: candidate_value in 1..=9 for one cell
moves_of_cell(b, cell_id) ==
    LET F[candidate_value \in 1..10] ==
            IF candidate_value > 9 THEN <<>>
            ELSE (IF candidate_accepted(b, cell_id, candidate_value)
                  THEN << <<cell_id, replace_cell(b, cell_id, candidate_value)>> >>
                  ELSE <<>>) \o F[candidate_value + 1]
    IN F[1]

next_possible_moves_descending(b) ==
    LET cells_to_update == unassigned(b)
        F[k \in 1..(COUNT_VALUES + 1)] ==
            IF k > Len(cells_to_update) THEN <<>>
            ELSE F[k + 1] \o moves_of_cell(b, cells_to_update[k])
    IN F[1]

\* Sudoku::next_possible_moves: outer loop over b.unassigned()
next_possible_moves(b) ==
    LET cells_to_update == unassigned(b)
        F[k \in 1..(COUNT_VALUES + 1)] ==
            IF k > Len(cells_to_update) THEN <<>>
            ELSE moves_of_cell(b, cells_to_update[k]) \o F[k + 1]
    IN F[1]

(***************************************************************************)
(* Inputs                                                                  *)
(***************************************************************************)
\* main: example_values
example_values ==
    << 0, 0, 0, 2, 6, 0, 7, 0, 1,
       6, 8, 0, 0, 7, 0, 0, 9, 0,
       1, 9, 0, 0, 0, 4, 5, 0, 0,
       8, 2, 0, 1, 0, 0, 0, 4, 0,
       0, 0, 4, 6, 0, 2, 9, 0, 0,
       0, 5, 0, 0, 0, 3, 0, 2, 8,
       0, 0, 9, 3, 0, 0, 0, 7, 4,
       0, 4, 0, 0, 5, 0, 0, 3, 6,
       7, 0, 3, 0, 1, 8, 0, 0, 0 >>

\* a completely and correctly filled grid, as a second input
solved_values ==
    [k \in 1..COUNT_VALUES |->
        LET r == (k - 1) \div 9
            c == (k - 1) % 9
        IN ((3 * (r % 3) + (r \div 3) + c) % 9) + 1]

InputValues == {example_values, solved_values}

\* cells and values a driver passes to replace_cell
EditCells == {0, 12}

EditValues == {0, 2, 3, 6, 9}

\* positions and values a driver passes to Slice::set (values also to Slice::has)
SetIndices == {0, 4, 8}

SetValues == {0, 1, 9, 10}

(***************************************************************************)
(* The session: one Sudoku value, and the last call made on it             *)
(***************************************************************************)
\* Sudoku::default(): the board is Board::default()
Init ==
    /\ board = default_board
    /\ slice = default_slice
    /\ call = [op |-> "default"]
    /\ ret = Ok
    /\ steps = 0
    /\ depth = 0
    /\ root = default_board
    /\ nsets = 0

\* Sudoku::init_board_values
InitBoardValues(values) ==
    /\ board' = from_flattened_values(values)
    /\ call' = [op |-> "init_board_values"]
    /\ ret' = Ok
    /\ steps' = 0
    /\ depth' = 0
    /\ root' = from_flattened_values(values)
    /\ UNCHANGED <<slice, nsets>>

\* Board::replace_cell on the session's board: &self, the result is a new Board
ReplaceCell(cell_id, value) ==
    /\ ret' = replace_cell(board, cell_id, value)
    /\ call' = [op |-> "replace_cell", cell_id |-> cell_id, value |-> value]
    /\ UNCHANGED <<board, slice, steps, depth, root, nsets>>

\* Sudoku::init_board with the board replace_cell returned
InitBoard ==
    /\ call.op = "replace_cell"
    /\ steps < MaxSteps
    /\ board' = ret
    /\ call' = [op |-> "init_board"]
    /\ ret' = Ok
    /\ steps' = steps + 1
    /\ depth' = 0
    /\ root' = ret
    /\ UNCHANGED <<slice, nsets>>

\* Sudoku::verify_board
VerifyBoard ==
    /\ ret' = verify_board(board)
    /\ call' = [op |-> "verify_board"]
    /\ UNCHANGED <<board, slice, steps, depth, root, nsets>>

\* Sudoku::finished
Finished ==
    /\ ret' = finished(board)
    /\ call' = [op |-> "finished"]
    /\ UNCHANGED <<board, slice, steps, depth, root, nsets>>

\* Sudoku::next_possible_moves
NextPossibleMoves ==
    /\ ret' = next_possible_moves(board)
    /\ call' = [op |-> "next_possible_moves"]
    /\ UNCHANGED <<board, slice, steps, depth, root, nsets>>

\* Sudoku::init_board with a board next_possible_moves returned (one search step)
ApplyMove(pick) ==
    /\ call.op = "next_possible_moves"
    /\ steps < MaxSteps
    /\ ret # <<>>
    /\ board' = ret[IF pick = "first" THEN 1 ELSE Len(ret)][2]
    /\ call' = [op |-> "init_board"]
    /\ ret' = Ok
    /\ steps' = steps + 1
    /\ depth' = depth + 1
    /\ UNCHANGED <<slice, root, nsets>>

Next ==
    \/ \E values \in InputValues : InitBoardValues(values)
    \/ \E cell_id \in EditCells, value \in EditValues : ReplaceCell(cell_id, value)
    \/ InitBoard
    \/ VerifyBoard
    \/ Finished
    \/ NextPossibleMoves
    \/ \E pick \in {"first", "last"} : ApplyMove(pick)

Spec == Init /\ [][Next]_vars

(***************************************************************************)
(* Slices: the regions of a loaded board, edited with Slice::set and       *)
(* queried with has, has_unique_sudoku_values and unused_sudoku_values     *)
(***************************************************************************)
SliceInit ==
    /\ board \in {default_board} \cup {from_flattened_values(v) : v \in InputValues}
    /\ slice = default_slice
    /\ call = [op |-> "default"]
    /\ ret = Ok
    /\ steps = 0
    /\ depth = 0
    /\ root = board
    /\ nsets = 0

\* Board::column on the session's board
Column(column_id) ==
    /\ slice' = column(board, column_id)
    /\ call' = [op |-> "column", id |-> column_id]
    /\ ret' = Ok
    /\ nsets' = 0
    /\ UNCHANGED <<board, steps, depth, root>>

\* Board::row on the session's board
Row(row_id) ==
    /\ slice' = row(board, row_id)
    /\ call' = [op |-> "row", id |-> row_id]
    /\ ret' = Ok
    /\ nsets' = 0
    /\ UNCHANGED <<board, steps, depth, root>>

\* Board::block on the session's board
Block(block_id) ==
    /\ slice' = block(board, block_id)
    /\ call' = [op |-> "block", id |-> block_id]
    /\ ret' = Ok
    /\ nsets' = 0
    /\ UNCHANGED <<board, steps, depth, root>>

\* Slice::set on the current slice
SliceSet(index, cell) ==
    /\ nsets < MaxSets
    /\ slice' = set(slice, index, cell)
    /\ call' = [op |-> "set"]
    /\ ret' = Ok
    /\ nsets' = nsets + 1
    /\ UNCHANGED <<board, steps, depth, root>>

\* Slice::has
Has(value) ==
    /\ ret' = has(slice, value)
    /\ call' = [op |-> "has", value |-> value]
    /\ UNCHANGED <<board, slice, steps, depth, root, nsets>>

\* Slice::has_unique_sudoku_values
HasUniqueSudokuValues ==
    /\ ret' = has_unique_sudoku_values(slice)
    /\ call' = [op |-> "has_unique_sudoku_values"]
    /\ UNCHANGED <<board, slice, steps, depth, root, nsets>>

\* Slice::unused_sudoku_values
UnusedSudokuValues ==
    /\ ret' = unused_sudoku_values(slice)
    /\ call' = [op |-> "unused_sudoku_values"]
    /\ UNCHANGED <<board, slice, steps, depth, root, nsets>>

SliceNext ==
    \/ \E column_id \in 0..(COUNT_COLUMNS - 1) : Column(column_id)
    \/ \E row_id \in 0..(COUNT_ROWS - 1) : Row(row_id)
    \/ \E block_id \in 0..(COUNT_BLOCKS - 1) : Block(block_id)
    \/ \E index \in SetIndices, cell \in SetValues : SliceSet(index, cell)
    \/ \E value \in SetValues : Has(value)
    \/ HasUniqueSudokuValues
    \/ UnusedSudokuValues

SliceSpec == SliceInit /\ [][SliceNext]_vars

(***************************************************************************)
(* The layout of the regions, as the Sudoku rules give it                  *)
(***************************************************************************)
Digits == 1..9

\* cell id at position i of region k; regions 0..8 are the columns, 9..17 the
\* rows, 18..26 the blocks (row-major)
RegionCell(k, i) ==
    IF k < 9 THEN 9 * i + k
    ELSE IF k < 18 THEN 9 * (k - 9) + i
    ELSE 9 * (3 * ((k - 18) \div 3) + (i \div 3)) + 3 * ((k - 18) % 3) + (i % 3)

RegionSlice(b, k) == [i \in 0..8 |-> b[RegionCell(k, i)]]

RegionLabel ==
    << "column 1", "column 2", "column 3", "column 4", "column 5",
       "column 6", "column 7", "column 8", "column 9",
       "row 1", "row 2", "row 3", "row 4", "row 5", "row 6", "row 7", "row 8", "row 9",
       "block top-left", "block top-center", "block top-right",
       "block middle-left", "block middle-center", "block middle-right",
       "block bottom-left", "block bottom-center", "block bottom-right" >>

\* some digit 1-9 occurs twice in the slice
Duplicate(s) == \E i, j \in 0..8 : i < j /\ s[i] = s[j] /\ s[i] \in Digits

RegionFails(b, k) == Duplicate(RegionSlice(b, k))

\* digits 1-9 present in region k of b
RegionDigits(b, k) == {b[RegionCell(k, i)] : i \in 0..8} \cap Digits

ZeroCells(b) == {j \in 0..80 : b[j] = 0}

\* the block that contains a cell, from its row and column jointly
BlockOf(cell_id) == 3 * ((cell_id \div 9) \div 3) + ((cell_id % 9) \div 3)

\* digits a list of moves offers for one cell
Offered(moves, cell_id) ==
    {moves[k][2][cell_id] : k \in {n \in 1..Len(moves) : moves[n][1] = cell_id}}

ExampleBoard == from_flattened_values(example_values)

(***************************************************************************)
(* Claims                                                                  *)
(***************************************************************************)

\* C1: a failing verify_board returns the first failing region in the order
\* column 0..8, row 0..8, block 0..8, with that region's label and 9 cells.
C1_FirstViolation ==
    (call.op = "verify_board" /\ ~ret.ok) =>
        \E k \in 0..26 :
            /\ RegionFails(board, k)
            /\ \A e \in 0..26 : e < k => ~RegionFails(board, e)
            /\ ret.region = RegionLabel[k + 1]
            /\ ret.slice = RegionSlice(board, k)

\* a board whose only duplicate lies in column 3 was verified
C1_Witness ==
    /\ call.op = "verify_board"
    /\ ~ret.ok
    /\ ret.region = "column 4"
    /\ \A k \in 0..26 : RegionFails(board, k) <=> k = 3

\* C2: verify_board returns Ok exactly when all 27 regions are free of
\* duplicate digits 1-9.
C2_OkIffAllRegionsPass ==
    call.op = "verify_board" =>
        (ret = Ok <=> \A k \in 0..26 : ~RegionFails(board, k))

\* a board whose columns and rows pass and whose only failure is a block
C2_Witness ==
    /\ call.op = "verify_board"
    /\ ret # Ok
    /\ \A k \in 0..17 : ~RegionFails(board, k)
    /\ \E k \in 18..26 : RegionFails(board, k)

\* C3: for every unassigned cell, the digits offered are exactly the digits
\* 1-9 absent from the cell's row, its column and the block that contains it.
C3_TrueBlock ==
    call.op = "next_possible_moves" =>
        \A cell_id \in ZeroCells(board) :
            Offered(ret, cell_id) =
                Digits \ (RegionDigits(board, cell_id % 9)
                          \cup RegionDigits(board, 9 + (cell_id \div 9))
                          \cup RegionDigits(board, 18 + BlockOf(cell_id)))

\* the (cell, digit) pairs the source accepts: block looked up by row index
AcceptedPairs(b) ==
    {p \in (0..80) \X Digits :
        /\ b[p[1]] = 0
        /\ p[2] \notin RegionDigits(b, p[1] % 9)
        /\ p[2] \notin RegionDigits(b, 9 + (p[1] \div 9))
        /\ p[2] \notin RegionDigits(b, 18 + (p[1] \div 9))}

\* C4: next_possible_moves returns one (cell, replace_cell(cell, digit)) pair
\* for exactly the accepted (cell, digit), block looked up by the row index,
\* in ascending cell order and ascending digit within a cell.
C4_MovesExact ==
    call.op = "next_possible_moves" =>
        /\ Len(ret) = Cardinality(AcceptedPairs(board))
        /\ \A k \in 1..Len(ret) :
              /\ <<ret[k][1], ret[k][2][ret[k][1]]>> \in AcceptedPairs(board)
              /\ \A j \in 0..80 : j # ret[k][1] => ret[k][2][j] = board[j]
        /\ \A k \in 1..(Len(ret) - 1) :
              \/ ret[k][1] < ret[k + 1][1]
              \/ /\ ret[k][1] = ret[k + 1][1]
                 /\ ret[k][2][ret[k][1]] < ret[k + 1][2][ret[k + 1][1]]

\* moves for several cells, one of them with more than one digit
C4_Witness ==
    /\ call.op = "next_possible_moves"
    /\ board = ExampleBoard
    /\ Len(ret) > 81 - Cardinality(ZeroCells(board))
    /\ \E k \in 1..(Len(ret) - 1) : ret[k][1] = ret[k + 1][1]
    /\ \E k \in 1..(Len(ret) - 1) : ret[k][1] < ret[k + 1][1]

\* C5: replace_cell returns a board holding the value at the cell and equal
\* to the receiver elsewhere, and leaves the receiver unchanged.
C5_ReplaceCellPure ==
    [][call'.op = "replace_cell" =>
          /\ board' = board
          /\ ret'[call'.cell_id] = call'.value
          /\ \A j \in 0..80 : j # call'.cell_id => ret'[j] = board[j]]_vars

\* replace_cell changed a cell
C5_Witness ==
    /\ call.op = "replace_cell"
    /\ ret[call.cell_id] # board[call.cell_id]
    /\ board # default_board

\* C6: block(0)..block(8) cover each of the 81 cells exactly once, and
\* block(id) is the 3x3 sub-grid at rows 3*(id/3).. and columns 3*(id%3)..,
\* row-major.
C6_BlockPartition ==
    /\ \A cell_id \in 0..80 :
          Cardinality({p \in (0..8) \X (0..8) :
                          block_cell_id(p[1], p[2]) = cell_id}) = 1
    /\ \A id \in 0..8, i \in 0..8 :
          block_cell_id(id, i) = 9 * (3 * (id \div 3) + (i \div 3)) + 3 * (id % 3) + (i % 3)
    /\ [i \in 0..8 |-> block_cell_id(0, i)] = [i \in 0..8 |-> <<0, 1, 2, 9, 10, 11, 18, 19, 20>>[i + 1]]
    /\ [i \in 0..8 |-> block_cell_id(8, i)] = [i \in 0..8 |-> <<60, 61, 62, 69, 70, 71, 78, 79, 80>>[i + 1]]
    /\ call.op = "block" =>
          \A i \in 0..8 :
              slice[i] = board[9 * (3 * (call.id \div 3) + (i \div 3))
                               + 3 * (call.id % 3) + (i % 3)]

\* block 8 of the example puzzle was read
C6_Witness ==
    /\ call.op = "block"
    /\ call.id = 8
    /\ board = ExampleBoard
    /\ slice = [i \in 0..8 |-> <<0, 7, 4, 0, 3, 6, 0, 0, 0>>[i + 1]]

\* C7: has_unique_sudoku_values is false exactly when a digit 1-9 occurs
\* twice; cells holding 0 never count.
C7_UniqueIffNoDuplicate ==
    call.op = "has_unique_sudoku_values" =>
        /\ ret = FALSE <=> Duplicate(slice)
        /\ ret \in BOOLEAN
        /\ (\A i \in 0..8 : slice[i] = 0) => ret = TRUE
        /\ ret = ~\E d \in Digits : Cardinality({i \in 0..8 : slice[i] = d}) > 1

\* a slice with several 0s and a digit twice was tested
C7_Witness ==
    /\ call.op = "has_unique_sudoku_values"
    /\ ret = FALSE
    /\ Cardinality({i \in 0..8 : slice[i] = 0}) > 1
    /\ Cardinality({i \in 0..8 : slice[i] = 9}) = 2

\* C8: unused_sudoku_values is strictly ascending and holds exactly the
\* digits 1-9 absent from the slice: d is in it iff has(d) is false.
C8_UnusedComplement ==
    call.op = "unused_sudoku_values" =>
        LET result == {ret[k] : k \in 1..Len(ret)}
            present == {slice[i] : i \in 0..8} \cap Digits
        IN /\ \A k \in 1..(Len(ret) - 1) : ret[k] < ret[k + 1]
           /\ result \cap present = {}
           /\ result \cup present = Digits
           /\ \A d \in Digits : d \in result <=> ~has(slice, d)

\* a slice with some digits present and some absent, 9 among the absent
C8_Witness ==
    /\ call.op = "unused_sudoku_values"
    /\ Len(ret) > 1
    /\ Len(ret) < 9
    /\ ret[Len(ret)] = 9

\* C9: on the example puzzle verify_board succeeds, finished is false and
\* the digits offered for cell 0 are exactly {3, 4, 5}.
C9_ExamplePuzzle ==
    board = ExampleBoard =>
        /\ call.op = "verify_board" => ret = Ok
        /\ call.op = "finished" => ret = FALSE
        /\ call.op = "next_possible_moves" =>
              /\ Offered(ret, 0) = {3, 4, 5}
              /\ Offered(ret, 0) \cap {2, 6, 7, 1} = {}
              /\ Offered(ret, 0) \cap {6, 1, 8, 7} = {}

\* the moves of the freshly loaded example puzzle
C9_Witness ==
    /\ board = ExampleBoard
    /\ steps = 0
    /\ call.op = "next_possible_moves"
    /\ \E k \in 1..Len(ret) : ret[k][1] = 0

\* C10: every returned (pos, b2) fills one unassigned cell of the session's
\* board with a digit 1-9 and changes nothing else, the session's board is
\* unchanged by the call, a finished board yields no moves, and a search
\* that loads returned boards is never deeper than the number of unassigned
\* cells of its starting board.
C10_Progress ==
    [][/\ call'.op = "next_possible_moves" =>
            /\ board' = board
            /\ \A k \in 1..Len(ret') :
                  LET pos == ret'[k][1]
                      b2 == ret'[k][2]
                  IN /\ board[pos] = 0
                     /\ b2[pos] \in Digits
                     /\ \A j \in 0..80 : j # pos => b2[j] = board[j]
                     /\ Cardinality(ZeroCells(b2)) = Cardinality(ZeroCells(board)) - 1
            /\ ZeroCells(board) = {} => ret' = <<>>
       /\ depth' <= Cardinality(ZeroCells(root'))]_vars

\* a search step that reached a finished board, which then has no moves
C10_Witness ==
    /\ call.op = "next_possible_moves"
    /\ depth > 0
    /\ depth = Cardinality(ZeroCells(root))
    /\ ret = <<>>

====
